---- MODULE Spec2Model ----
(***************************************************************************)
(* Ticket issuance and NFT minting pipeline of the event-admin API.        *)
(*                                                                         *)
(* State: the tickets table, the mint_queue table, the transactions sent   *)
(* to the NFT contract, and the position of every request in flight.  Each *)
(* action is one atomic step of a handler: the code between two awaited    *)
(* calls on shared state (a table or the chain).                           *)
(***************************************************************************)
EXTENDS Integers, Sequences, FiniteSets, TLC

\* ---------------------------------------------------------------- bounds
MaxReq == 2        \* issuance requests in one behaviour
MaxQty == 2        \* largest quantity a request asks for
MaxTickets == 3    \* tickets asked for by all accepted requests of one behaviour
MaxDel == 1        \* delete requests in one behaviour
MaxRetry == 1      \* retry-mint requests in one behaviour
MaxClaims == 2     \* jobs the queue worker takes in one behaviour
MaxStat == 1       \* read requests (mint-status, ticket list) in one behaviour
MaxJobs == 2       \* jobs in a queue that the queue operations find

\* ------------------------------------------------------ program constants
MaxQuantity == 1000                 \* quantity > 1000 is rejected

NULL == 0                           \* null / undefined / absent column

\* The events table (read-only for these handlers).  Events 1 and 2 are
\* configured for minting; event 3 exists but has neither a contract address
\* nor a wallet; every other id names no row.
events ==
    [e \in {1, 2, 3} |->
        [nft_contract_address |-> IF e = 3 THEN NULL ELSE e,
         admin_wallets        |-> IF e = 3 THEN 0 ELSE 1,
         wallet_connected     |-> e # 3]]

\* Request inputs: the well-formed requests, and for each check of a handler
\* a request that fails it.
GoodIssue(Q) ==
    [event_id : {1}, ticket_name : {"VIP"}, quantity : Q,
     authOK : {TRUE}, isAdmin : {TRUE}]

BadIssue ==
    {[event_id |-> 1, ticket_name |-> "VIP", quantity |-> 1, authOK |-> FALSE, isAdmin |-> TRUE],
     [event_id |-> 1, ticket_name |-> "VIP", quantity |-> 1, authOK |-> TRUE, isAdmin |-> FALSE],
     [event_id |-> NULL, ticket_name |-> "VIP", quantity |-> 1, authOK |-> TRUE, isAdmin |-> TRUE],
     [event_id |-> 3, ticket_name |-> "VIP", quantity |-> 1, authOK |-> TRUE, isAdmin |-> TRUE],
     [event_id |-> 4, ticket_name |-> "VIP", quantity |-> 1, authOK |-> TRUE, isAdmin |-> TRUE],
     [event_id |-> 1, ticket_name |-> "", quantity |-> 1, authOK |-> TRUE, isAdmin |-> TRUE],
     [event_id |-> 1, ticket_name |-> "VIP", quantity |-> 0, authOK |-> TRUE, isAdmin |-> TRUE],
     [event_id |-> 1, ticket_name |-> "VIP", quantity |-> MaxQuantity + 1,
      authOK |-> TRUE, isAdmin |-> TRUE]}

IssueInputs == GoodIssue(1 .. MaxQty) \cup BadIssue

\* The legacy handler is sent the same requests; it has no upper limit on
\* quantity.
LegacyInputs == IssueInputs

EventInputs == {1, 2}
Requests    == 1 .. MaxReq
WORKER      == 0                     \* the queue worker, as a caller of mintToBlockchain
Callers     == Requests \cup {WORKER}

VARIABLES
    IMMEDIATE_MINT,   \* process.env.IMMEDIATE_MINT === 'true'
    tickets,          \* rows of table tickets
    mint_queue,       \* rows of table mint_queue, in insertion order
    chain,            \* batchMint transactions confirmed by the network, in order
    reqs,             \* issuance requests: position and locals of each handler call
    mint,             \* mintToBlockchain calls: position and locals, per caller
    worker,           \* the queue worker
    del,              \* the delete request in flight
    nreq, ndel, nretry,   \* requests started so far
    nclaim,           \* jobs taken by the worker so far
    nextId,           \* next fresh ticket_id
    everAssigned,     \* history: <<event_id, ticket_number>> of every row ever inserted
    retry,            \* the retry-mint request: its event and response
    claim,            \* the last markProcessing call that was refused
    stat,             \* the read request in flight (mint-status, ticket list)
    nstat             \* read requests started so far

\* What the read handlers and the responses of the queue operations hold.
answers == <<retry, claim, stat, nstat>>

vars == <<IMMEDIATE_MINT, tickets, mint_queue, chain, reqs, mint, worker, del,
          nreq, ndel, nretry, nclaim, nextId, everAssigned, retry, claim, stat, nstat>>

\* ---------------------------------------------------------------- helpers
Max(S) == CHOOSE x \in S : \A y \in S : y <= x

EventTickets(e) == {t \in tickets : t.event_id = e}

Row(id) == CHOOSE t \in tickets : t.ticket_id = id

Present(id) == \E t \in tickets : t.ticket_id = id

Minted(s) == s = "minted" \/ s = "transferred"

\* .update(cols).eq('ticket_id', id): every row with that id gets the columns.
UpdateStatus(id, s) ==
    {IF t.ticket_id = id THEN [t EXCEPT !.nft_mint_status = s] ELSE t : t \in tickets}

UpdateMinted(id, tok) ==
    {IF t.ticket_id = id
        THEN [t EXCEPT !.nft_mint_status = "minted", !.nft_token_id = tok]
        ELSE t : t \in tickets}

\* ------------------------------------------------------- metadata builder
\* nft_metadata stored in the ticket row by the current handler.
ticketMetadata(ticketNumber, quantity) ==
    [name       |-> ticketNumber,
     attributes |-> << [trait_type |-> "Ticket Number", value |-> ticketNumber],
                       [trait_type |-> "Total Supply",  value |-> quantity] >>]

\* metadata queued / uploaded for minting by the current handler.
mintMetadata(ticketNumber, quantity) ==
    [name       |-> ticketNumber,
     attributes |-> << [trait_type |-> "Ticket Number", value |-> ticketNumber] >>]

\* nft_metadata stored by the legacy handler.
legacyMetadata(ticketNumber, quantity) ==
    [name       |-> ticketNumber,
     attributes |-> << [trait_type |-> "Ticket Number", value |-> ticketNumber],
                       [trait_type |-> "Total Supply",  value |-> quantity] >>]

\* ------------------------------------------------------------------- Init
NoReq ==
    [pc |-> "idle", handler |-> "none", event_id |-> NULL, quantity |-> 0,
     m |-> 0, startingNumber |-> 0, i |-> 0, created |-> << >>,
     dbError |-> FALSE, status |-> 0]

NoTx == [contractAddress |-> NULL, tokenIds |-> << >>, uris |-> << >>]

NoMint ==
    [pc |-> "none", nftMetadata |-> << >>, i |-> 0, tx |-> NoTx, dropped |-> FALSE,
     contractAddress |-> NULL]

NoDel == [pc |-> "idle", ticket_id |-> NULL, event_id |-> NULL, status |-> 0]

NoRetry == [event_id |-> NULL, status |-> 0]

NoClaim == [job |-> 0, error |-> "none"]

NoSummary == [total_tickets |-> 0, minted |-> 0, pending |-> 0, failed |-> 0,
              queue_jobs |-> << >>]

NoStat == [pc |-> "idle", handler |-> "none", event_id |-> NULL,
           queueStatus |-> << >>, summary |-> NoSummary, rows |-> << >>, status |-> 0]

\* The tickets table when the handlers start: event 2 has a ticket that is on
\* chain and was transferred (nothing in these handlers writes 'transferred';
\* the delete guard reads it); event 1 has no ticket yet.
TransferredRow ==
    [ticket_id |-> 1, event_id |-> 2, ticket_number |-> 1,
     total_tickets_in_group |-> NULL,
     nft_mint_status |-> "transferred", nft_token_id |-> 1,
     nft_metadata |-> ticketMetadata(1, 1)]

Init ==
    /\ IMMEDIATE_MINT \in BOOLEAN
    /\ tickets = {TransferredRow}
    /\ mint_queue = << >>
    /\ chain = << >>
    /\ reqs = [r \in Requests |-> NoReq]
    /\ mint = [c \in Callers |-> NoMint]
    /\ worker = [pc |-> "idle", job |-> 0]
    /\ del = NoDel
    /\ nreq = 0 /\ ndel = 0 /\ nretry = 0 /\ nclaim = 0
    /\ nextId = 2
    /\ everAssigned = {<<t.event_id, t.ticket_number>> : t \in tickets}
    /\ retry = NoRetry
    /\ claim = NoClaim
    /\ stat = NoStat
    /\ nstat = 0


\* ------------------------------------------------ issuance, current handler
\* Tickets asked for by the requests accepted so far.
RECURSIVE Asked(_)
Asked(r) == IF r = 0 THEN 0 ELSE reqs[r].quantity + Asked(r - 1)

WithinBound(q) == Asked(MaxReq) + q <= MaxTickets

Reject(r, h, code) ==
    reqs' = [reqs EXCEPT ![r] = [NoReq EXCEPT !.pc = "done", !.handler = h, !.status = code]]

\* existingTickets[0].ticket_number + 1, or 1 when the event has no ticket.
startingNumberOf(e) ==
    IF EventTickets(e) # {}
        THEN Max({t.ticket_number : t \in EventTickets(e)}) + 1
        ELSE 1

\* Authentication, admin check, validation, event lookup and the read of the
\* largest ticket_number.  Only the last reads a table these handlers write.
mint_handler_begin(r, e, ticket_name, q, authOK, isAdmin) ==
    /\ r = nreq + 1
    /\ r \in Requests
    /\ q <= MaxQty => WithinBound(q)
    /\ nreq' = r
    /\ IF ~authOK THEN Reject(r, "current", 401)
       ELSE IF ~isAdmin THEN Reject(r, "current", 403)
       ELSE IF e = NULL \/ ticket_name = "" \/ q = 0 \/ q < 1 \/ q > MaxQuantity
            THEN Reject(r, "current", 400)
       ELSE IF e \notin DOMAIN events
            THEN Reject(r, "current", 500)      \* event is null: TypeError, caught
       ELSE IF events[e].nft_contract_address = NULL \/ events[e].admin_wallets = 0
            THEN Reject(r, "current", 400)
       ELSE reqs' = [reqs EXCEPT ![r] =
                [NoReq EXCEPT !.pc = "insert", !.handler = "current",
                              !.event_id = e, !.quantity = q,
                              !.m = startingNumberOf(e) - 1,
                              !.startingNumber = startingNumberOf(e)]]
    /\ UNCHANGED <<IMMEDIATE_MINT, tickets, mint_queue, chain, mint, worker, del,
                   ndel, nretry, nclaim, nextId, everAssigned, answers>>

\* ticketsToCreate: quantity rows numbered from startingNumber, fresh ids.
ticketsToCreate(req) ==
    [i \in 1 .. req.quantity |->
        [ticket_id |-> nextId + i - 1,
         event_id |-> req.event_id,
         ticket_number |-> req.startingNumber + (i - 1),
         total_tickets_in_group |-> NULL,
         nft_mint_status |-> "pending",
         nft_token_id |-> NULL,
         nft_metadata |-> ticketMetadata(req.startingNumber + (i - 1), req.quantity)]]

\* An nftMetadata whose token ids are the positions in the batch.
nftMetadataOf_byPosition(req) ==
    [i \in 1 .. req.quantity |->
        [ticketId |-> nextId + i - 1,
         tokenId  |-> i,
         metadata |-> mintMetadata(req.startingNumber + (i - 1), req.quantity)]]

\* nftMetadata: one item per ticket, in the order of ticketsToCreate.
nftMetadataOf(req) ==
    [i \in 1 .. req.quantity |->
        [ticketId |-> nextId + i - 1,
         tokenId  |-> req.startingNumber + (i - 1),
         metadata |-> mintMetadata(req.startingNumber + (i - 1), req.quantity)]]

Range(s) == {s[i] : i \in DOMAIN s}

StartMint(items, contractAddress) ==
    [pc |-> "submit", nftMetadata |-> items, i |-> 0, tx |-> NoTx, dropped |-> FALSE,
     contractAddress |-> contractAddress]

\* The batch insert: one statement, all rows or none.
mint_handler_insert(r, ok) ==
    /\ reqs[r].pc = "insert"
    /\ IF ok
         THEN /\ tickets' = tickets \cup Range(ticketsToCreate(reqs[r]))
              /\ nextId' = nextId + reqs[r].quantity
              /\ everAssigned' = everAssigned \cup
                     {<<t.event_id, t.ticket_number>> : t \in Range(ticketsToCreate(reqs[r]))}
              /\ reqs' = [reqs EXCEPT
                     ![r].created = [i \in 1 .. reqs[r].quantity |-> nextId + i - 1],
                     ![r].pc = IF IMMEDIATE_MINT THEN "minting" ELSE "enqueue"]
              /\ mint' = IF IMMEDIATE_MINT
                           THEN [mint EXCEPT ![r] =
                                   StartMint(nftMetadataOf(reqs[r]),
                                             events[reqs[r].event_id].nft_contract_address)]
                           ELSE mint
         ELSE /\ reqs' = [reqs EXCEPT ![r].pc = "done", ![r].status = 500,
                                      ![r].dbError = TRUE]
              /\ UNCHANGED <<tickets, nextId, everAssigned, mint>>
    /\ UNCHANGED <<IMMEDIATE_MINT, mint_queue, chain, worker, del, nreq, ndel, nretry,
                   nclaim, answers>>

\* An nftMetadata that lists the tickets last first.
queuedItems_reversed(req) ==
    [i \in 1 .. req.quantity |->
        [ticketId |-> req.created[req.quantity + 1 - i],
         tokenId  |-> req.startingNumber + (req.quantity - i),
         metadata |-> mintMetadata(req.startingNumber + (req.quantity - i), req.quantity)]]

\* The nftMetadata of a request that waits to be queued: ids and numbers of
\* the rows it created.
queuedItems(req) ==
    [i \in 1 .. req.quantity |->
        [ticketId |-> req.created[i],
         tokenId  |-> req.startingNumber + (i - 1),
         metadata |-> mintMetadata(req.startingNumber + (i - 1), req.quantity)]]

queueForMinting(r, ok) ==
    /\ reqs[r].pc = "enqueue"
    /\ IF ok
         THEN /\ mint_queue' = Append(mint_queue,
                     [event_id |-> reqs[r].event_id,
                      ticket_data |-> queuedItems(reqs[r]),
                      status |-> "pending",
                      retry_count |-> NULL,
                      error_message |-> NULL,
                      created_at |-> Len(mint_queue) + 1])
              /\ reqs' = [reqs EXCEPT ![r].pc = "done", ![r].status = 201]
         ELSE /\ reqs' = [reqs EXCEPT ![r].pc = "done", ![r].status = 500]
              /\ UNCHANGED mint_queue
    /\ UNCHANGED <<IMMEDIATE_MINT, tickets, chain, mint, worker, del,
                   nreq, ndel, nretry, nclaim, nextId, everAssigned, answers>>

\* ------------------------------------------------- issuance, legacy handler
legacy_handler_begin(r, e, ticket_name, q, authOK, isAdmin) ==
    /\ r = nreq + 1
    /\ r \in Requests
    /\ q <= MaxQty => WithinBound(q)
    /\ nreq' = r
    /\ IF ~authOK THEN Reject(r, "legacy", 401)
       ELSE IF e = NULL \/ ticket_name = "" \/ q = 0 \/ q < 1
            THEN Reject(r, "legacy", 400)
       ELSE IF ~isAdmin THEN Reject(r, "legacy", 403)
       ELSE IF e \notin DOMAIN events THEN Reject(r, "legacy", 404)
       ELSE IF ~events[e].wallet_connected THEN Reject(r, "legacy", 400)
       ELSE reqs' = [reqs EXCEPT ![r] =
                [NoReq EXCEPT !.pc = "legacy_insert", !.handler = "legacy",
                              !.event_id = e, !.quantity = q,
                              !.m = startingNumberOf(e) - 1,
                              !.i = 1]]
    /\ UNCHANGED <<IMMEDIATE_MINT, tickets, mint_queue, chain, mint, worker, del,
                   ndel, nretry, nclaim, nextId, everAssigned, answers>>

\* ticketData of loop iteration i: ticket_number is the loop counter.
ticketData(req) ==
    [ticket_id |-> nextId,
     event_id |-> req.event_id,
     ticket_number |-> req.i,
     total_tickets_in_group |-> req.quantity,
     nft_mint_status |-> "pending",
     nft_token_id |-> NULL,
     nft_metadata |-> legacyMetadata(req.i, req.quantity)]

\* One iteration of the insert loop: one row per statement.  The loop of a
\* request for more than MaxQuantity tickets is followed until MaxTickets rows
\* were inserted.
legacy_handler_insert(r, ok) ==
    /\ reqs[r].pc = "legacy_insert"
    /\ reqs[r].quantity > MaxQty => nextId - 2 < MaxTickets
    /\ IF ok
         THEN /\ tickets' = tickets \cup {ticketData(reqs[r])}
              /\ nextId' = nextId + 1
              /\ everAssigned' = everAssigned \cup {<<reqs[r].event_id, reqs[r].i>>}
              /\ reqs' = [reqs EXCEPT
                     ![r].created = Append(reqs[r].created, nextId),
                     ![r].i = reqs[r].i + 1,
                     ![r].pc = IF reqs[r].i = reqs[r].quantity THEN "done" ELSE "legacy_insert",
                     ![r].status = IF reqs[r].i = reqs[r].quantity THEN 200 ELSE 0]
         ELSE /\ reqs' = [reqs EXCEPT ![r].pc = "done", ![r].status = 500,
                                      ![r].dbError = TRUE]
              /\ UNCHANGED <<tickets, nextId, everAssigned>>
    /\ UNCHANGED <<IMMEDIATE_MINT, mint_queue, chain, mint, worker, del,
                   nreq, ndel, nretry, nclaim, answers>>


\* -------------------------------------------------------- mintToBlockchain
\* tokenIds = nftMetadata.map(item => item.tokenId)
tokenIds(items) == [k \in DOMAIN items |-> items[k].tokenId]

\* uploadMetadataToIPFS returns a placeholder URI whatever the document is;
\* Promise.all keeps the order of the items.
uploadMetadataToIPFS(metadata) == "placeholder"

metadataURIs(items) == [k \in DOMAIN items |-> uploadMetadataToIPFS(items[k].metadata)]

\* A handler that answers a failed mint as a validation error.
Finish_asValidation(c, returned) ==
    /\ IF c = WORKER
         THEN /\ worker' = [worker EXCEPT !.pc = IF returned THEN "mark_minted" ELSE "mark_failed"]
              /\ UNCHANGED reqs
         ELSE /\ reqs' = [reqs EXCEPT ![c].pc = "done",
                                      ![c].status = IF returned THEN 201 ELSE 400]
              /\ UNCHANGED worker

\* How a call of mintToBlockchain ends for its caller: the issuance handler
\* answers 201 or (exception caught at the end of the handler) 500; the worker
\* goes on to mark its job.
Finish(c, returned) ==
    /\ IF c = WORKER
         THEN /\ worker' = [worker EXCEPT !.pc = IF returned THEN "mark_minted" ELSE "mark_failed"]
              /\ UNCHANGED reqs
         ELSE /\ reqs' = [reqs EXCEPT ![c].pc = "done",
                                      ![c].status = IF returned THEN 201 ELSE 500]
              /\ UNCHANGED worker

\* contract.batchMint(walletAddress, tokenIds, metadataURIs): the transaction
\* is sent (tx holds it), or the call throws and nothing is sent.
batchMint(contractAddress, items) ==
    [contractAddress |-> contractAddress,
     tokenIds |-> tokenIds(items),
     uris |-> metadataURIs(items)]

mintToBlockchain_batchMint(c, ok) ==
    /\ mint[c].pc = "submit"
    /\ mint' = IF ok
                 THEN [mint EXCEPT ![c].pc = "wait",
                                   ![c].tx = batchMint(mint[c].contractAddress,
                                                       mint[c].nftMetadata)]
                 ELSE [mint EXCEPT ![c].pc = "catch", ![c].i = 1]
    /\ UNCHANGED <<IMMEDIATE_MINT, tickets, mint_queue, chain, reqs, worker, del,
                   nreq, ndel, nretry, nclaim, nextId, everAssigned, answers>>

\* A confirmed transaction on the same contract that holds one of the token ids.
ConfirmedWith(tx) ==
    \E k \in DOMAIN chain :
        /\ chain[k].contractAddress = tx.contractAddress
        /\ Range(chain[k].tokenIds) \cap Range(tx.tokenIds) # {}

\* tx.wait(): the network confirms or reverts the transaction.  The call
\* returns when it sees the confirmation ("confirmed"), throws when it sees
\* the revert ("reverted"), and throws as well when the provider fails while
\* it waits and the transaction is confirmed all the same ("lost").  The
\* contract is not part of the program: whether it reverts a transaction with
\* a token id it has minted before is not known, so every outcome is allowed.
WaitOutcomes == {"confirmed", "reverted", "lost"}

mintToBlockchain_wait(c, outcome) ==
    /\ mint[c].pc = "wait"
    /\ chain' = IF outcome \in {"confirmed", "lost"}
                  THEN Append(chain, mint[c].tx)
                  ELSE chain
    /\ mint' = IF outcome = "confirmed"
                 THEN [mint EXCEPT ![c].pc = "writeback", ![c].i = 1, ![c].tx = NoTx]
                 ELSE [mint EXCEPT ![c].pc = "catch", ![c].i = 1, ![c].tx = NoTx]
    /\ UNCHANGED <<IMMEDIATE_MINT, tickets, mint_queue, reqs, worker, del,
                   nreq, ndel, nretry, nclaim, nextId, everAssigned, answers>>

\* An awaited query of the database client resolves with the rows or with an
\* error object; it does not throw.
Outcomes == {"ok", "error"}

\* A write-back that pairs ticket i with the token id of the mirrored position.
writeBack_mirrored(items, i) ==
    UpdateMinted(items[i].ticketId, tokenIds(items)[Len(items) + 1 - i])

\* The row written by iteration i of the write-back loop: ticket and token id
\* of position i.
writeBack(items, i) == UpdateMinted(items[i].ticketId, tokenIds(items)[i])

\* One iteration of the write-back loop.  The update is applied ("ok") or
\* answers with an error, which the loop does not look at.
mintToBlockchain_writeback(c, outcome) ==
    /\ mint[c].pc = "writeback"
    /\ tickets' = IF outcome = "ok"
                    THEN writeBack(mint[c].nftMetadata, mint[c].i)
                    ELSE tickets
    /\ IF mint[c].i = Len(mint[c].nftMetadata)
         THEN /\ mint' = [mint EXCEPT ![c].pc = "returned", ![c].i = 0,
                                      ![c].dropped = @ \/ outcome = "error"]
              /\ Finish(c, TRUE)
         ELSE /\ mint' = [mint EXCEPT ![c].i = @ + 1,
                                      ![c].dropped = @ \/ outcome = "error"]
              /\ UNCHANGED <<reqs, worker>>
    /\ UNCHANGED <<IMMEDIATE_MINT, mint_queue, chain, del,
                   nreq, ndel, nretry, nclaim, nextId, everAssigned, answers>>

\* The row written by iteration i of the loop of the catch block.
markFailed(items, i) == UpdateStatus(items[i].ticketId, "failed")

\* One iteration of the loop of the catch block, which then rethrows.
mintToBlockchain_catch(c, outcome) ==
    /\ mint[c].pc = "catch"
    /\ tickets' = IF outcome = "ok"
                    THEN markFailed(mint[c].nftMetadata, mint[c].i)
                    ELSE tickets
    /\ IF mint[c].i = Len(mint[c].nftMetadata)
         THEN /\ mint' = [mint EXCEPT ![c].pc = "thrown", ![c].i = 0]
              /\ Finish(c, FALSE)
         ELSE /\ mint' = [mint EXCEPT ![c].i = @ + 1]
              /\ UNCHANGED <<reqs, worker>>
    /\ UNCHANGED <<IMMEDIATE_MINT, mint_queue, chain, del,
                   nreq, ndel, nretry, nclaim, nextId, everAssigned, answers>>

\* ------------------------------------------------------------ queue worker
\* A markProcessing that takes a job whatever its status.
claimable_always(job) == TRUE

\* markProcessing takes a job whose status is pending.
claimable(job) == job.status = "pending"

\* markProcessing: claim a pending job, then mint its ticket_data.
worker_markProcessing(j) ==
    /\ worker.pc = "idle"
    /\ nclaim < MaxClaims
    /\ nclaim' = nclaim + 1
    /\ j \in DOMAIN mint_queue
    /\ claimable(mint_queue[j])
    /\ mint_queue' = [mint_queue EXCEPT ![j].status = "processing"]
    /\ worker' = [pc |-> "minting", job |-> j]
    /\ mint' = [mint EXCEPT ![WORKER] =
                   StartMint(mint_queue[j].ticket_data,
                             events[mint_queue[j].event_id].nft_contract_address)]
    /\ UNCHANGED <<IMMEDIATE_MINT, tickets, chain, reqs, del,
                   nreq, ndel, nretry, nextId, everAssigned, answers>>

worker_markMinted ==
    /\ worker.pc = "mark_minted"
    /\ mint_queue' = [mint_queue EXCEPT ![worker.job].status = "minted"]
    /\ worker' = [pc |-> "idle", job |-> 0]
    /\ UNCHANGED <<IMMEDIATE_MINT, tickets, chain, reqs, mint, del,
                   nreq, ndel, nretry, nclaim, nextId, everAssigned, answers>>

worker_markFailed ==
    /\ worker.pc = "mark_failed"
    /\ mint_queue' = [mint_queue EXCEPT ![worker.job].status = "failed",
                                        ![worker.job].error_message = "error"]
    /\ worker' = [pc |-> "idle", job |-> 0]
    /\ UNCHANGED <<IMMEDIATE_MINT, tickets, chain, reqs, mint, del,
                   nreq, ndel, nretry, nclaim, nextId, everAssigned, answers>>

\* markProcessing called (by any worker of the pool) on a job that is not
\* pending: it fails with ConflictError and changes nothing.
markProcessing_conflict(j) ==
    /\ j \in DOMAIN mint_queue
    /\ ~claimable(mint_queue[j])
    /\ claim' = [job |-> j, error |-> "ConflictError"]
    /\ UNCHANGED <<IMMEDIATE_MINT, tickets, mint_queue, chain, reqs, mint, worker, del,
                   nreq, ndel, nretry, nclaim, nextId, everAssigned, retry, stat, nstat>>

\* -------------------------------------------------------------- retry-mint
\* An update without .eq('event_id', event_id).
resetFailed_anyEvent(e) ==
    [j \in DOMAIN mint_queue |->
        IF mint_queue[j].status = "failed"
            THEN [mint_queue[j] EXCEPT !.status = "pending",
                                       !.retry_count = 0,
                                       !.error_message = NULL]
            ELSE mint_queue[j]]

\* An update without .eq('status', 'failed').
resetFailed_anyStatus(e) ==
    [j \in DOMAIN mint_queue |->
        IF mint_queue[j].event_id = e
            THEN [mint_queue[j] EXCEPT !.status = "pending",
                                       !.retry_count = 0,
                                       !.error_message = NULL]
            ELSE mint_queue[j]]

\* .update({status: 'pending', retry_count: 0, error_message: null})
\*     .eq('event_id', event_id).eq('status', 'failed')
resetFailed(e) ==
    [j \in DOMAIN mint_queue |->
        IF mint_queue[j].event_id = e /\ mint_queue[j].status = "failed"
            THEN [mint_queue[j] EXCEPT !.status = "pending",
                                       !.retry_count = 0,
                                       !.error_message = NULL]
            ELSE mint_queue[j]]

\* A retry that also sets the tickets of the jobs it resets back to pending.
retry_handler_resetTickets(e, ok) ==
    /\ nretry < MaxRetry
    /\ nretry' = nretry + 1
    /\ mint_queue' = IF ok THEN resetFailed(e) ELSE mint_queue
    /\ tickets' = {IF \E j \in DOMAIN mint_queue :
                         /\ mint_queue[j].event_id = e
                         /\ mint_queue[j].status = "failed"
                         /\ \E i \in DOMAIN mint_queue[j].ticket_data :
                                mint_queue[j].ticket_data[i].ticketId = t.ticket_id
                     THEN [t EXCEPT !.nft_mint_status = "pending"]
                     ELSE t : t \in tickets}
    /\ retry' = [event_id |-> e, status |-> IF ok THEN 200 ELSE 500]
    /\ UNCHANGED <<IMMEDIATE_MINT, chain, reqs, mint, worker, del,
                   nreq, ndel, nclaim, nextId, everAssigned, claim, stat, nstat>>

\* The update is applied and the handler answers 200, or the query fails
\* (the client answers with an error, or cannot be reached at all), nothing is
\* changed and the handler answers 500.
retry_handler(e, ok) ==
    /\ nretry < MaxRetry
    /\ nretry' = nretry + 1
    /\ mint_queue' = IF ok THEN resetFailed(e) ELSE mint_queue
    /\ retry' = [event_id |-> e, status |-> IF ok THEN 200 ELSE 500]
    /\ UNCHANGED <<IMMEDIATE_MINT, tickets, chain, reqs, mint, worker, del,
                   nreq, ndel, nclaim, nextId, everAssigned, claim, stat, nstat>>

\* ----------------------------------------------------------------- delete
\* The response of a delete request.
EndDel(code) ==
    del' = [pc |-> "idle", ticket_id |-> NULL, event_id |-> NULL, status |-> code]

\* The response of a bulk delete; del keeps the event of the request.
EndBulk(event_id, code) ==
    del' = [pc |-> "idle", ticket_id |-> NULL, event_id |-> event_id, status |-> code]

\* The response to a request for a ticket that is already minted; del keeps
\* the ticket the request was refused for.
Refuse(ticket_id) ==
    del' = [pc |-> "idle", ticket_id |-> ticket_id, event_id |-> NULL, status |-> 400]

\* A guard that forgets the transferred tickets.
alreadyMinted_mintedOnly(ticket) == ticket.nft_mint_status = "minted"

\* The guard of the single delete: the status read from the row.
alreadyMinted(ticket) ==
    ticket.nft_mint_status = "minted" \/ ticket.nft_mint_status = "transferred"

\* The rows of an event that may be deleted: pending or failed.
Deletable(e) ==
    {t \in tickets : t.event_id = e /\ t.nft_mint_status \in {"pending", "failed"}}

\* Rows removed by the bulk delete of an event.
bulkDeleted(e) ==
    {t \in tickets : t.event_id = e /\ t.nft_mint_status \in {"pending"}}

\* Start of a delete request: authentication, parameters; for a ticket_id the
\* read of the row, the admin check and the mint-status guard; for an
\* event_id the admin check and the delete statement itself.
delete_handler_begin(ticket_id, event_id, authOK, isAdmin, ok) ==
    /\ del.pc = "idle"
    /\ ndel < MaxDel
    /\ ndel' = ndel + 1
    /\ IF ~authOK THEN EndDel(401) /\ UNCHANGED tickets
       ELSE IF ticket_id = NULL /\ event_id = NULL THEN EndDel(400) /\ UNCHANGED tickets
       ELSE IF ticket_id # NULL
            THEN /\ UNCHANGED tickets
                 /\ IF ~Present(ticket_id) THEN EndDel(404)
                    ELSE IF ~isAdmin THEN EndDel(403)
                    ELSE IF alreadyMinted(Row(ticket_id)) THEN Refuse(ticket_id)
                    ELSE del' = [pc |-> "delete", ticket_id |-> ticket_id,
                                 event_id |-> NULL, status |-> 0]
       ELSE IF ~isAdmin THEN EndDel(403) /\ UNCHANGED tickets
       ELSE IF ok THEN EndBulk(event_id, 200) /\ tickets' = tickets \ bulkDeleted(event_id)
       ELSE EndBulk(event_id, 500) /\ UNCHANGED tickets
    /\ UNCHANGED <<IMMEDIATE_MINT, mint_queue, chain, reqs, mint, worker,
                   nreq, nretry, nclaim, nextId, everAssigned, answers>>

\* .delete().eq('ticket_id', ticket_id)
delete_handler_delete(ok) ==
    /\ del.pc = "delete"
    /\ IF ok
         THEN /\ tickets' = {t \in tickets : t.ticket_id # del.ticket_id}
              /\ EndDel(200)
         ELSE /\ UNCHANGED tickets
              /\ EndDel(500)
    /\ UNCHANGED <<IMMEDIATE_MINT, mint_queue, chain, reqs, mint, worker,
                   nreq, ndel, nretry, nclaim, nextId, everAssigned, answers>>

\* Delete requests: every ticket_id in use and one that is not; every event;
\* and for each check of the handler a request that fails it.
DeleteInputs ==
    [ticket_id : 1 .. nextId, event_id : {NULL}, authOK : {TRUE}, isAdmin : {TRUE}, ok : {TRUE}]
    \cup [ticket_id : {NULL}, event_id : EventInputs, authOK : {TRUE}, isAdmin : {TRUE},
          ok : BOOLEAN]
    \cup [ticket_id : {NULL, 1}, event_id : {NULL}, authOK : BOOLEAN, isAdmin : BOOLEAN,
          ok : {TRUE}]

\* ------------------------------------------------------------ mint-status
EventJobs(e) == {j \in DOMAIN mint_queue : mint_queue[j].event_id = e}

\* select('status, created_at, processed_at, error_message')
jobView(job) ==
    [status |-> job.status, created_at |-> job.created_at,
     error_message |-> job.error_message]

\* .order('created_at', { ascending: false }): the latest job first.
RECURSIVE orderByCreatedAt(_)
orderByCreatedAt(J) ==
    IF J = {} THEN << >>
    ELSE LET j == CHOOSE j \in J : \A k \in J : mint_queue[k].created_at <= mint_queue[j].created_at
         IN  <<jobView(mint_queue[j])>> \o orderByCreatedAt(J \ {j})

\* First query of the mint-status handler: the jobs of the event.
mint_status_begin(e) ==
    /\ stat.pc = "idle"
    /\ nstat < MaxStat
    /\ nstat' = nstat + 1
    /\ stat' = [NoStat EXCEPT !.pc = "tickets", !.handler = "mint-status",
                              !.event_id = e,
                              !.queueStatus = orderByCreatedAt(EventJobs(e))]
    /\ UNCHANGED <<IMMEDIATE_MINT, tickets, mint_queue, chain, reqs, mint, worker, del,
                   nreq, ndel, nretry, nclaim, nextId, everAssigned, retry, claim>>

\* ticketStatus.filter(t => t.nft_mint_status === s).length
countStatus(ticketStatus, s) == Cardinality({t \in ticketStatus : t.nft_mint_status = s})

\* A summary that counts the transferred tickets as minted.
summary_mintedOrTransferred(ticketStatus, queueStatus) ==
    [total_tickets |-> Cardinality(ticketStatus),
     minted        |-> Cardinality({t \in ticketStatus : Minted(t.nft_mint_status)}),
     pending       |-> countStatus(ticketStatus, "pending"),
     failed        |-> countStatus(ticketStatus, "failed"),
     queue_jobs    |-> queueStatus]

summary(ticketStatus, queueStatus) ==
    [total_tickets |-> Cardinality(ticketStatus),
     minted        |-> countStatus(ticketStatus, "minted"),
     pending       |-> countStatus(ticketStatus, "pending"),
     failed        |-> countStatus(ticketStatus, "failed"),
     queue_jobs    |-> queueStatus]

\* Second query (the tickets of the event) and the response.
mint_status_end ==
    /\ stat.pc = "tickets"
    /\ stat' = [stat EXCEPT !.pc = "idle", !.status = 200, !.queueStatus = << >>,
                            !.summary = summary(EventTickets(stat.event_id), stat.queueStatus)]
    /\ UNCHANGED <<IMMEDIATE_MINT, tickets, mint_queue, chain, reqs, mint, worker, del,
                   nreq, ndel, nretry, nclaim, nextId, everAssigned, retry, claim, nstat>>

\* ------------------------------------------------------------- ticket list
\* .order('ticket_number', { ascending: true }): the ids of the rows, lowest
\* ticket_number first.
RECURSIVE orderByTicketNumber(_)
orderByTicketNumber(T) ==
    IF T = {} THEN << >>
    ELSE LET t == CHOOSE t \in T : \A u \in T : t.ticket_number <= u.ticket_number
         IN  <<t.ticket_id>> \o orderByTicketNumber(T \ {t})

tickets_handler(e) ==
    /\ stat.pc = "idle"
    /\ nstat < MaxStat
    /\ nstat' = nstat + 1
    /\ stat' = [NoStat EXCEPT !.handler = "tickets", !.event_id = e, !.status = 200,
                              !.rows = orderByTicketNumber(EventTickets(e))]
    /\ UNCHANGED <<IMMEDIATE_MINT, tickets, mint_queue, chain, reqs, mint, worker, del,
                   nreq, ndel, nretry, nclaim, nextId, everAssigned, retry, claim>>

\* ------------------------------------------------------------------- Next
Next ==
    \/ \E x \in IssueInputs :
          mint_handler_begin(nreq + 1, x.event_id, x.ticket_name, x.quantity,
                             x.authOK, x.isAdmin)
    \/ \E r \in Requests, ok \in BOOLEAN : mint_handler_insert(r, ok)
    \/ \E r \in Requests, ok \in BOOLEAN : queueForMinting(r, ok)
    \/ \E x \in LegacyInputs :
          legacy_handler_begin(nreq + 1, x.event_id, x.ticket_name, x.quantity,
                               x.authOK, x.isAdmin)
    \/ \E r \in Requests, ok \in BOOLEAN : legacy_handler_insert(r, ok)
    \/ \E c \in Callers, ok \in BOOLEAN : mintToBlockchain_batchMint(c, ok)
    \/ \E c \in Callers, o \in WaitOutcomes : mintToBlockchain_wait(c, o)
    \/ \E c \in Callers, o \in Outcomes : mintToBlockchain_writeback(c, o)
    \/ \E c \in Callers, o \in Outcomes : mintToBlockchain_catch(c, o)
    \/ \E j \in DOMAIN mint_queue : worker_markProcessing(j)
    \/ worker_markMinted
    \/ worker_markFailed
    \/ \E e \in EventInputs, ok \in BOOLEAN : retry_handler(e, ok)
    \/ \E x \in DeleteInputs :
          delete_handler_begin(x.ticket_id, x.event_id, x.authOK, x.isAdmin, x.ok)
    \/ \E ok \in BOOLEAN : delete_handler_delete(ok)

Spec == Init /\ [][Next]_vars

\* Issuance by the current handler only, one request after the other: a
\* request starts when no other issuance request is in flight.
NoIssuanceInFlight == \A r \in Requests : reqs[r].pc \in {"idle", "done"}

NextSerial ==
    \/ \E x \in IssueInputs :
          /\ NoIssuanceInFlight
          /\ mint_handler_begin(nreq + 1, x.event_id, x.ticket_name, x.quantity,
                                x.authOK, x.isAdmin)
    \/ \E r \in Requests, ok \in BOOLEAN : mint_handler_insert(r, ok)
    \/ \E r \in Requests, ok \in BOOLEAN : queueForMinting(r, ok)
    \/ \E c \in Callers, ok \in BOOLEAN : mintToBlockchain_batchMint(c, ok)
    \/ \E c \in Callers, o \in WaitOutcomes : mintToBlockchain_wait(c, o)
    \/ \E c \in Callers, o \in Outcomes : mintToBlockchain_writeback(c, o)
    \/ \E c \in Callers, o \in Outcomes : mintToBlockchain_catch(c, o)
    \/ \E x \in DeleteInputs :
          delete_handler_begin(x.ticket_id, x.event_id, x.authOK, x.isAdmin, x.ok)
    \/ \E ok \in BOOLEAN : delete_handler_delete(ok)

SpecSerial == Init /\ [][NextSerial]_vars

\* The queue at work: issuance by the current handler, one request after the
\* other, the minter, the worker pool, retry-mint and the read handlers.
NextQueue ==
    \/ \E x \in IssueInputs :
          /\ NoIssuanceInFlight
          /\ mint_handler_begin(nreq + 1, x.event_id, x.ticket_name, x.quantity,
                                x.authOK, x.isAdmin)
    \/ \E r \in Requests, ok \in BOOLEAN : mint_handler_insert(r, ok)
    \/ \E r \in Requests, ok \in BOOLEAN : queueForMinting(r, ok)
    \/ \E c \in Callers, ok \in BOOLEAN : mintToBlockchain_batchMint(c, ok)
    \/ \E c \in Callers, o \in WaitOutcomes : mintToBlockchain_wait(c, o)
    \/ \E c \in Callers, o \in Outcomes : mintToBlockchain_writeback(c, o)
    \/ \E c \in Callers, o \in Outcomes : mintToBlockchain_catch(c, o)
    \/ \E j \in DOMAIN mint_queue : worker_markProcessing(j)
    \/ \E j \in DOMAIN mint_queue : markProcessing_conflict(j)
    \/ worker_markMinted
    \/ worker_markFailed
    \/ \E e \in EventInputs, ok \in BOOLEAN : retry_handler(e, ok)
    \/ \E e \in EventInputs : mint_status_begin(e)
    \/ mint_status_end
    \/ \E e \in EventInputs : tickets_handler(e)

SpecQueue == Init /\ [][NextQueue]_vars

\* The steps the runtime takes by itself once a request or a job is under
\* way.  Requests come when users send them, and nothing in the code makes
\* tx.wait() return: no fairness for these.
Fairness ==
    /\ WF_vars(\E r \in Requests, ok \in BOOLEAN : mint_handler_insert(r, ok))
    /\ WF_vars(\E r \in Requests, ok \in BOOLEAN : queueForMinting(r, ok))
    /\ WF_vars(\E c \in Callers, ok \in BOOLEAN : mintToBlockchain_batchMint(c, ok))
    /\ WF_vars(\E c \in Callers, o \in Outcomes : mintToBlockchain_writeback(c, o))
    /\ WF_vars(\E c \in Callers, o \in Outcomes : mintToBlockchain_catch(c, o))
    /\ WF_vars(\E j \in DOMAIN mint_queue : worker_markProcessing(j))
    /\ WF_vars(worker_markMinted)
    /\ WF_vars(worker_markFailed)

\* Issuance, the minter and one worker, with the steps above taken whenever
\* they can be.
NextMint ==
    \/ \E x \in IssueInputs :
          /\ NoIssuanceInFlight
          /\ mint_handler_begin(nreq + 1, x.event_id, x.ticket_name, x.quantity,
                                x.authOK, x.isAdmin)
    \/ \E r \in Requests, ok \in BOOLEAN : mint_handler_insert(r, ok)
    \/ \E r \in Requests, ok \in BOOLEAN : queueForMinting(r, ok)
    \/ \E c \in Callers, ok \in BOOLEAN : mintToBlockchain_batchMint(c, ok)
    \/ \E c \in Callers, o \in WaitOutcomes : mintToBlockchain_wait(c, o)
    \/ \E c \in Callers, o \in Outcomes : mintToBlockchain_writeback(c, o)
    \/ \E c \in Callers, o \in Outcomes : mintToBlockchain_catch(c, o)
    \/ \E j \in DOMAIN mint_queue : worker_markProcessing(j)
    \/ worker_markMinted
    \/ worker_markFailed

SpecMintFair == Init /\ [][NextMint]_vars /\ Fairness

\* The operations on a queue as they find it: retry-mint and the read
\* handlers, started on any queue of at most MaxJobs jobs.  Job k of the
\* queue holds one ticket; the ticket is pending while the job waits or is
\* processed and has the status of the job once it ended.
FoundTicket(k, e, st) ==
    [ticket_id |-> k + 1, event_id |-> e, ticket_number |-> k + 1,
     total_tickets_in_group |-> NULL,
     nft_mint_status |-> IF st \in {"minted", "failed"} THEN st ELSE "pending",
     nft_token_id |-> IF st = "minted" THEN k + 1 ELSE NULL,
     nft_metadata |-> ticketMetadata(k + 1, 1)]

FoundJob(k, e, st, at) ==
    [event_id |-> e,
     ticket_data |-> << [ticketId |-> k + 1, tokenId |-> k + 1,
                         metadata |-> mintMetadata(k + 1, 1)] >>,
     status |-> st,
     retry_count |-> IF st = "failed" THEN 1 ELSE NULL,
     error_message |-> IF st = "failed" THEN "error" ELSE NULL,
     created_at |-> at]

JobStatuses == {"pending", "processing", "minted", "failed"}

InitOps ==
    /\ IMMEDIATE_MINT = FALSE
    /\ \E n \in 0 .. MaxJobs :
       \E e \in [1 .. n -> EventInputs], st \in [1 .. n -> JobStatuses],
          at \in {f \in [1 .. n -> 1 .. n] : \A a, b \in 1 .. n : f[a] = f[b] => a = b} :
           /\ mint_queue = [k \in 1 .. n |-> FoundJob(k, e[k], st[k], at[k])]
           /\ tickets = {TransferredRow} \cup {FoundTicket(k, e[k], st[k]) : k \in 1 .. n}
           /\ nextId = n + 2
    /\ chain = << >>
    /\ reqs = [r \in Requests |-> NoReq]
    /\ mint = [c \in Callers |-> NoMint]
    /\ worker = [pc |-> "idle", job |-> 0]
    /\ del = NoDel
    /\ nreq = 0 /\ ndel = 0 /\ nretry = 0 /\ nclaim = 0
    /\ everAssigned = {<<t.event_id, t.ticket_number>> : t \in tickets}
    /\ retry = NoRetry
    /\ claim = NoClaim
    /\ stat = NoStat
    /\ nstat = 0

NextOps ==
    \/ \E e \in EventInputs, ok \in BOOLEAN : retry_handler(e, ok)
    \/ \E e \in EventInputs : mint_status_begin(e)
    \/ mint_status_end
    \/ \E e \in EventInputs : tickets_handler(e)

SpecOps == InitOps /\ [][NextOps]_vars

\* ------------------------------------------------------------ properties
TypeOK ==
    /\ \A t \in tickets : t.nft_mint_status \in {"pending", "minted", "failed", "transferred"}
    /\ \A j \in DOMAIN mint_queue :
           mint_queue[j].status \in {"pending", "processing", "minted", "failed"}

\* C1: no two ticket rows of one event have the same ticket_number, whatever
\* the interleaving of the issuance requests.
C1_UniqueTicketNumbers ==
    \A t1 \in tickets, t2 \in tickets :
        (t1.event_id = t2.event_id /\ t1.ticket_number = t2.ticket_number)
            => t1.ticket_id = t2.ticket_id

\* The rows a request inserted that are still in the table.
CreatedRows(r) == {t \in tickets : \E i \in DOMAIN reqs[r].created : reqs[r].created[i] = t.ticket_id}

\* C2: an issuance request that has ended inserted all its quantity rows or
\* none; and when an insert failed, no row of the request is in the table.
C2_BatchAllOrNothing ==
    \A r \in Requests :
        reqs[r].pc = "done" =>
            /\ Len(reqs[r].created) \in {0, reqs[r].quantity}
            /\ reqs[r].dbError => CreatedRows(r) = {}

\* C3: a successful issuance of quantity q that found the largest
\* ticket_number m inserted q rows, the i-th numbered m + i, and (where the
\* response has the field) reports starting_ticket_number = m + 1.
C3_NumbersFollowMax ==
    \A r \in Requests :
        (reqs[r].pc = "done" /\ reqs[r].status \in {200, 201}) =>
            /\ Len(reqs[r].created) = reqs[r].quantity
            /\ \A i \in DOMAIN reqs[r].created :
                   Present(reqs[r].created[i]) =>
                       Row(reqs[r].created[i]).ticket_number = reqs[r].m + i
            /\ reqs[r].handler = "current" => reqs[r].startingNumber = reqs[r].m + 1

\* The rows a step inserts.
NewRows == {t \in tickets' : ~Present(t.ticket_id)}

\* C4: every ticket_number a step assigns is greater than every ticket_number
\* ever assigned in that event, deleted rows included.
C4_MonotonicNumbers ==
    [][\A t \in NewRows : \A p \in everAssigned :
           p[1] = t.event_id => t.ticket_number > p[2]]_vars

\* C5: a row whose nft_mint_status is minted or transferred is in the table
\* after every step, with the same status, token id and metadata.
C5_MintedRowsFrozen ==
    [][\A t \in tickets : Minted(t.nft_mint_status) =>
           \E u \in tickets' :
               /\ u.ticket_id = t.ticket_id
               /\ u.nft_mint_status = t.nft_mint_status
               /\ u.nft_token_id = t.nft_token_id
               /\ u.nft_metadata = t.nft_metadata]_vars

\* C6: no batchMint is sent with a token id that a confirmed transaction of
\* the same contract already holds.
C6_NoSecondMint ==
    [][\A c \in Callers :
           (mint[c].pc = "submit" /\ mint'[c].pc = "wait") => ~ConfirmedWith(mint'[c].tx)]_vars

\* The rows of the batch of a mintToBlockchain call that are in the table.
BatchRows(c) ==
    {t \in tickets : \E i \in DOMAIN mint[c].nftMetadata :
                         mint[c].nftMetadata[i].ticketId = t.ticket_id}

\* C7: once a mint attempt has ended, its batch is all minted or, when the
\* attempt failed, all failed: never a mix of minted with failed or pending.
C7_BatchAllOrNothing ==
    \A c \in Callers :
        /\ mint[c].pc = "thrown" =>
               \A t \in BatchRows(c) : t.nft_mint_status = "failed"
        /\ mint[c].pc \in {"returned", "thrown"} =>
               \/ \A t \in BatchRows(c) : t.nft_mint_status = "minted"
               \/ \A t \in BatchRows(c) : t.nft_mint_status # "minted"

\* The write-back keeps the order of the batch wherever its update was
\* applied: after a mint that returned with no update answered by an error,
\* the row of position i carries the i-th token id sent, and the confirmed
\* transaction lists the token ids in the order of the batch.
WriteBackInOrder ==
    \A c \in Callers :
        (mint[c].pc = "returned" /\ ~mint[c].dropped) =>
            /\ \E k \in DOMAIN chain :
                   /\ chain[k].tokenIds = tokenIds(mint[c].nftMetadata)
                   /\ Len(chain[k].uris) = Len(mint[c].nftMetadata)
            /\ \A i \in DOMAIN mint[c].nftMetadata :
                   Present(mint[c].nftMetadata[i].ticketId) =>
                       LET t == Row(mint[c].nftMetadata[i].ticketId) IN
                       /\ t.nft_mint_status = "minted"
                       /\ t.nft_token_id = tokenIds(mint[c].nftMetadata)[i]
                       /\ t.nft_metadata.name = mint[c].nftMetadata[i].metadata.name

\* C8: after a successful mint of a batch (mintToBlockchain returned true),
\* every ticket of the batch still in the table is minted, the ticket of
\* position i carries the i-th token id of the batch, and the confirmed
\* transaction lists the token ids and URIs in the order of the batch.
C8_PositionalWriteBack ==
    \A c \in Callers :
        mint[c].pc = "returned" =>
            /\ \E k \in DOMAIN chain :
                   /\ chain[k].tokenIds = tokenIds(mint[c].nftMetadata)
                   /\ Len(chain[k].uris) = Len(mint[c].nftMetadata)
            /\ \A i \in DOMAIN mint[c].nftMetadata :
                   Present(mint[c].nftMetadata[i].ticketId) =>
                       LET t == Row(mint[c].nftMetadata[i].ticketId) IN
                       /\ t.nft_mint_status = "minted"
                       /\ t.nft_token_id = tokenIds(mint[c].nftMetadata)[i]

\* C11: a retry-mint request for an event that is answered 200 sets every
\* failed job of the event to pending with retry_count 0 and error_message
\* null, keeps the ticket references of these jobs, and leaves every other job
\* as it was; with no failed job of the event the queue is left as it was.
C11_RetryFrame ==
    [][nretry' = nretry + 1 =>
          /\ DOMAIN mint_queue' = DOMAIN mint_queue
          /\ \A j \in DOMAIN mint_queue :
                 IF /\ retry'.status = 200
                    /\ mint_queue[j].event_id = retry'.event_id
                    /\ mint_queue[j].status = "failed"
                   THEN /\ mint_queue'[j].status = "pending"
                        /\ mint_queue'[j].retry_count = 0
                        /\ mint_queue'[j].error_message = NULL
                        /\ mint_queue'[j].ticket_data = mint_queue[j].ticket_data
                        /\ mint_queue'[j].event_id = mint_queue[j].event_id
                        /\ mint_queue'[j].created_at = mint_queue[j].created_at
                   ELSE mint_queue'[j] = mint_queue[j]
          /\ (\A j \in DOMAIN mint_queue :
                  ~(mint_queue[j].event_id = retry'.event_id /\ mint_queue[j].status = "failed"))
                 => /\ mint_queue' = mint_queue
                    /\ UNCHANGED <<tickets, chain, reqs, mint, worker, del>>]_vars

\* A retry answered 200 that reset a job (its ticket is failed, the job is
\* pending again) while a failed job of another event is still failed.
C11_Witness ==
    /\ retry.status = 200
    /\ \E j \in DOMAIN mint_queue, k \in DOMAIN mint_queue :
           /\ mint_queue[j].event_id = retry.event_id
           /\ mint_queue[j].status = "pending"
           /\ Row(mint_queue[j].ticket_data[1].ticketId).nft_mint_status = "failed"
           /\ mint_queue[k].event_id # retry.event_id
           /\ mint_queue[k].status = "failed"
           /\ mint_queue[k].retry_count = 1

\* C12: a retry-mint request changes no ticket row and sends nothing to the
\* chain: no transaction, no mint started, no job taken.
C12_RetryOnlyQueue ==
    [][nretry' = nretry + 1 =>
          /\ tickets' = tickets
          /\ chain' = chain
          /\ mint' = mint
          /\ worker' = worker]_vars

\* A retry answered 200 after which the ticket of the job it reset is still
\* failed and nothing is on the chain.
C12_Witness ==
    /\ retry.status = 200
    /\ chain = << >>
    /\ \E j \in DOMAIN mint_queue :
           /\ mint_queue[j].event_id = retry.event_id
           /\ mint_queue[j].status = "pending"
           /\ \A i \in DOMAIN mint_queue[j].ticket_data :
                  Row(mint_queue[j].ticket_data[i].ticketId).nft_mint_status = "failed"

\* C13: a job becomes processing only from pending; a markProcessing call on a
\* job that is not pending fails with ConflictError and changes no job, so a
\* second claim of a job that a worker has taken does not succeed.
C13_ClaimOnlyPending ==
    [][/\ \A j \in DOMAIN mint_queue :
              (mint_queue'[j].status = "processing" /\ mint_queue[j].status # "processing")
                  => mint_queue[j].status = "pending"
       /\ claim' # claim =>
              /\ claim'.error = "ConflictError"
              /\ mint_queue[claim'.job].status # "pending"
              /\ mint_queue' = mint_queue
              /\ worker' = worker /\ mint' = mint
       /\ worker'.job # worker.job /\ worker'.job # 0 =>
              /\ mint_queue[worker'.job].status = "pending"
              /\ worker.pc = "idle"]_vars

\* A second markProcessing on a job that the worker is processing was refused.
C13_Witness ==
    /\ claim.error = "ConflictError"
    /\ worker.pc = "minting"
    /\ claim.job = worker.job
    /\ mint_queue[claim.job].status = "processing"

\* The status of job j, "absent" when the queue has no job j.
JobStatus(j) == IF j \in DOMAIN mint_queue THEN mint_queue[j].status ELSE "absent"

\* C14: a mint attempt that has started ends, and a job that is processing is
\* marked minted or failed: no batch and no job stays in flight for ever.
C14_EveryAttemptEnds ==
    /\ \A c \in Callers :
           (mint[c].pc \in {"submit", "wait", "writeback", "catch"})
               ~> (mint[c].pc \in {"returned", "thrown"})
    /\ \A j \in 1 .. MaxReq :
           (JobStatus(j) = "processing") ~> (JobStatus(j) \in {"minted", "failed"})

\* C15: a request that an issuance handler accepted (it went on to insert)
\* asks for 1 to MaxQuantity tickets of an event that has a contract address
\* and an admin wallet; every other request was rejected before any insert.
C15_InvalidRejected ==
    \A r \in Requests :
        reqs[r].event_id # NULL =>
            /\ reqs[r].quantity >= 1
            /\ reqs[r].quantity <= MaxQuantity
            /\ events[reqs[r].event_id].nft_contract_address # NULL
            /\ events[reqs[r].event_id].admin_wallets > 0

\* C16: the step that answers an issuance request with 400, 401, 403 or 404,
\* or with the error of a missing event, is the first step of the request and
\* changes no table, starts no mint and sends no transaction.
C16_RejectedWritesNothing ==
    [][\A r \in Requests :
           (/\ reqs[r].pc # "done"
            /\ reqs'[r].pc = "done"
            /\ (reqs'[r].status \in {400, 401, 403, 404} \/ reqs[r].pc = "idle"))
               => /\ reqs[r].pc = "idle"
                  /\ reqs'[r].created = << >>
                  /\ tickets' = tickets
                  /\ mint_queue' = mint_queue
                  /\ chain' = chain
                  /\ mint' = mint]_vars

\* A request was rejected (not authorized) after another one had created
\* tickets and a job.
C16_Witness ==
    /\ reqs[2].pc = "done" /\ reqs[2].status = 403
    /\ reqs[1].pc = "done" /\ reqs[1].status = 201
    /\ Len(mint_queue) = 1
    /\ CreatedRows(1) # {}

C18_JobLifecycle ==
    [][/\ \A j \in DOMAIN mint_queue :
              /\ j \in DOMAIN mint_queue'
              /\ \/ mint_queue'[j].status = mint_queue[j].status
                 \/ /\ mint_queue[j].status = "pending"
                    /\ mint_queue'[j].status = "processing"
                 \/ /\ mint_queue[j].status = "processing"
                    /\ mint_queue'[j].status \in {"minted", "failed"}
                 \/ /\ mint_queue[j].status = "failed"
                    /\ mint_queue'[j].status = "pending"
                    /\ nretry' = nretry + 1
       /\ \A j \in DOMAIN mint_queue' :
              j \notin DOMAIN mint_queue => mint_queue'[j].status = "pending"
       /\ (nstat' # nstat \/ stat' # stat) => mint_queue' = mint_queue]_vars

\* A job that failed, was reset by retry-mint and was taken again, next to a
\* job that is minted.
C18_Witness ==
    /\ retry.status = 200
    /\ nclaim = 2
    /\ \E j \in DOMAIN mint_queue : mint_queue[j].status = "processing"

\* C19: in queued mode the step that ends a successful issuance appends one
\* job: pending, of the event of the request, its ticket references being the
\* tickets the request created, in ascending ticket_number; the step changes
\* no ticket (those of the request are pending with no token id), no other
\* job, and sends nothing to the chain.
C19_EnqueueOneJob ==
    [][\A r \in Requests :
           (reqs[r].pc = "enqueue" /\ reqs'[r].pc = "done" /\ reqs'[r].status = 201) =>
               /\ Len(mint_queue') = Len(mint_queue) + 1
               /\ \A j \in DOMAIN mint_queue : mint_queue'[j] = mint_queue[j]
               /\ LET job == mint_queue'[Len(mint_queue')]
                  IN  /\ job.status = "pending"
                      /\ job.event_id = reqs[r].event_id
                      /\ Len(job.ticket_data) = reqs[r].quantity
                      /\ [i \in DOMAIN job.ticket_data |-> job.ticket_data[i].ticketId]
                             = reqs[r].created
                      /\ \A a \in DOMAIN job.ticket_data, b \in DOMAIN job.ticket_data :
                             (a < b /\ Present(job.ticket_data[a].ticketId)
                                    /\ Present(job.ticket_data[b].ticketId))
                                 => Row(job.ticket_data[a].ticketId).ticket_number
                                      < Row(job.ticket_data[b].ticketId).ticket_number
               /\ tickets' = tickets
               /\ \A t \in CreatedRows(r) :
                      t.nft_mint_status = "pending" /\ t.nft_token_id = NULL
               /\ chain' = chain
               /\ mint' = mint]_vars

\* A request for two tickets ended with its job in the queue.
C19_Witness ==
    \E r \in Requests :
        /\ reqs[r].pc = "done" /\ reqs[r].status = 201 /\ reqs[r].quantity = 2
        /\ ~IMMEDIATE_MINT
        /\ \E j \in DOMAIN mint_queue :
               /\ Len(mint_queue[j].ticket_data) = 2
               /\ mint_queue[j].ticket_data[1].ticketId = reqs[r].created[1]
               /\ mint_queue[j].ticket_data[2].ticketId = reqs[r].created[2]

\* The token id of a ticket in a mint is its ticket_number: the id held for
\* the ticket by a mint in flight or by a queued job, and the nft_token_id of
\* a minted row.
TokenIdFollowsNumber ==
    /\ \A t \in tickets :
           t.nft_mint_status = "minted" => t.nft_token_id = t.ticket_number
    /\ \A c \in Callers : \A i \in DOMAIN mint[c].nftMetadata :
           Present(mint[c].nftMetadata[i].ticketId) =>
               mint[c].nftMetadata[i].tokenId
                   = Row(mint[c].nftMetadata[i].ticketId).ticket_number
    /\ \A j \in DOMAIN mint_queue : \A i \in DOMAIN mint_queue[j].ticket_data :
           Present(mint_queue[j].ticket_data[i].ticketId) =>
               mint_queue[j].ticket_data[i].tokenId
                   = Row(mint_queue[j].ticket_data[i].ticketId).ticket_number

\* C20: the token id of a ticket in a mint is its ticket_number, and no two
\* minted rows of an event have the same nft_token_id.
C20_TokenIdIsTicketNumber ==
    /\ TokenIdFollowsNumber
    /\ \A t \in tickets, u \in tickets :
           (/\ t.nft_mint_status = "minted" /\ u.nft_mint_status = "minted"
            /\ t.event_id = u.event_id /\ t.nft_token_id = u.nft_token_id)
               => t.ticket_id = u.ticket_id

\* C21: a single delete that removes a ticket removes a pending or failed one
\* and nothing else, a single delete request for a pending or failed ticket is
\* not refused, and a bulk delete answered 200 removes the pending and the
\* failed tickets of its event, and no other ticket.
C21_DeleteExactlyUnminted ==
    [][/\ (del.pc = "delete" /\ del'.pc = "idle" /\ del'.status = 200) =>
              /\ tickets' = {t \in tickets : t.ticket_id # del.ticket_id}
              /\ Present(del.ticket_id) =>
                     Row(del.ticket_id).nft_mint_status \in {"pending", "failed"}
       /\ (ndel' = ndel + 1 /\ del'.pc = "idle" /\ del'.ticket_id # NULL) =>
              Row(del'.ticket_id).nft_mint_status \notin {"pending", "failed"}
       /\ (ndel' = ndel + 1 /\ del'.event_id # NULL /\ del'.status = 200) =>
              tickets' = tickets \ Deletable(del'.event_id)]_vars

\* The document has an attribute of that name and value.
HasAttribute(doc, name, v) ==
    \E i \in DOMAIN doc.attributes :
        doc.attributes[i].trait_type = name /\ doc.attributes[i].value = v

\* The nft_metadata of every row a request created has the 'Ticket Number' of
\* the row and the quantity of the request as 'Total Supply'.
StoredMetadataAttributes ==
    \A r \in Requests : \A t \in CreatedRows(r) :
        /\ HasAttribute(t.nft_metadata, "Ticket Number", t.ticket_number)
        /\ HasAttribute(t.nft_metadata, "Total Supply", reqs[r].quantity)

\* The document of item i of a batch has the 'Ticket Number' of the ticket and
\* the size of the batch as 'Total Supply', and is the nft_metadata of the row.
MintDocumentOK(items, i) ==
    /\ HasAttribute(items[i].metadata, "Ticket Number", items[i].tokenId)
    /\ HasAttribute(items[i].metadata, "Total Supply", Len(items))
    /\ Present(items[i].ticketId) => items[i].metadata = Row(items[i].ticketId).nft_metadata

\* C22: the metadata document stored in a ticket row and the one queued or
\* uploaded for minting of the ticket both have a 'Ticket Number' attribute
\* with the ticket_number and a 'Total Supply' attribute with the quantity of
\* the request, and the two documents of a ticket are equal.
C22_MetadataDocuments ==
    /\ StoredMetadataAttributes
    /\ \A c \in Callers : \A i \in DOMAIN mint[c].nftMetadata :
           MintDocumentOK(mint[c].nftMetadata, i)
    /\ \A j \in DOMAIN mint_queue : \A i \in DOMAIN mint_queue[j].ticket_data :
           MintDocumentOK(mint_queue[j].ticket_data, i)

\* Some job of the event of the row refers to the row.
Referenced(t) ==
    \E j \in DOMAIN mint_queue :
        /\ mint_queue[j].event_id = t.event_id
        /\ \E i \in DOMAIN mint_queue[j].ticket_data :
               mint_queue[j].ticket_data[i].ticketId = t.ticket_id

\* C23: in queued mode, once an issuance request has ended, with 201 or with
\* an error, every pending ticket it created is referenced by a mint job of
\* its event.
C23_PendingTicketsQueued ==
    ~IMMEDIATE_MINT =>
        \A r \in Requests :
            reqs[r].pc = "done" =>
                \A t \in CreatedRows(r) :
                    t.nft_mint_status = "pending" => Referenced(t)

\* C24: every ticket that a pending or processing job refers to is a row of
\* the tickets table.
C24_QueuedTicketsExist ==
    \A j \in DOMAIN mint_queue :
        mint_queue[j].status \in {"pending", "processing"} =>
            \A i \in DOMAIN mint_queue[j].ticket_data :
                Present(mint_queue[j].ticket_data[i].ticketId)

\* C9: the start of a delete request never takes a row that is minted or
\* transferred as the row to delete and never removes one; the request for
\* such a row is answered with an error, and the row stays as it was.
C9_MintedDeleteRejected ==
    [][ndel' = ndel + 1 =>
           \A t \in tickets :
               Minted(t.nft_mint_status) =>
                   /\ t \in tickets'
                   /\ del'.ticket_id = t.ticket_id =>
                          (del'.pc = "idle" /\ del'.status >= 400)]_vars

C9_Witness ==
    /\ del.pc = "idle" /\ del.status = 400 /\ del.ticket_id # NULL
    /\ Present(del.ticket_id)
    /\ Row(del.ticket_id).nft_mint_status = "minted"

\* C10: no step removes a row whose nft_mint_status is minted or transferred.
C10_NeverRemoveMinted ==
    [][\A t \in tickets :
           (~\E u \in tickets' : u.ticket_id = t.ticket_id)
               => ~Minted(t.nft_mint_status)]_vars

====
